---- MODULE Spec2Model ----
(***************************************************************************)
(* Model of the timeline chart of src/image.js (the revision that has      *)
(* Bar.update, lines 598-1358): the bars of an Image, the column packing   *)
(* of Image.assignCols, the geometry written by Bar.update and             *)
(* Bar.moveToCol, the resize of Image.updateSize and the category colour   *)
(* rules of Image.checkCategories.                                         *)
(***************************************************************************)
EXTENDS Integers, Sequences, FiniteSets, TLC

VARIABLES curYr, image, lastOp

vars == <<curYr, image, lastOp>>

(***************************************************************************)
(* Bounds of the model.                                                    *)
(***************************************************************************)
\* number of distinct bar ids a caller may add
MaxBars == 3
\* number of assignCols runs explored (each run lowers image.height by one)
MaxAssigns == 4
\* number of decade labels in the DOM beyond which no further scroll is explored
MaxLabels == 45

(***************************************************************************)
(* Inputs.                                                                 *)
(***************************************************************************)
\* endYr of a bar that is still alive (null / undefined)
NULL == -1
\* arguments of new Image(width, height)
InitWidth == 400
InitHeight == 300
\* values new Date().getFullYear() is drawn from
CurYrs == {2024}
Ids == 1..MaxBars
Years == {1900, 1920, 1950}
EndYrs == Years \cup {NULL}
\* offsets are numbers, not only whole pixels: an offset is held in units of
\* 1 / OffsetScale of a pixel
OffsetScale == 2
\* arguments of setOffset: 10, 0, -1, -1.5, -2.5 and -60 pixels
Offsets == {20, 0, -2, -3, -5, -120}
\* arguments of updateOffset: a wheel notch either way (120 pixels) and -1.5
\* pixels
OffsetDeltas == {-240, 240, -3}
\* a category is the sequence of the characters of its name
Categories == {<<"a">>}

(***************************************************************************)
(* Module-level constants and helpers.                                     *)
(***************************************************************************)
yrHeight == 3
decadeHeight == yrHeight * 10
decadeWidth == 60
colWidth == 30

\* Math.floor(yr / 10)
getDecadeForYr(yr) == yr \div 10

curDecade == getDecadeForYr(curYr)

indexYr == (curDecade + 1) * 10

Max(a, b) == IF a >= b THEN a ELSE b

Min(a, b) == IF a <= b THEN a ELSE b

\* max + min of the three channels; 'l' is this sum halved, compared with 128
parseColor(color) ==
  LET mx == Max(color[1], Max(color[2], color[3]))
      mn == Min(color[1], Min(color[2], color[3]))
  IN [r |-> color[1], g |-> color[2], b |-> color[3], l2 |-> mx + mn]

categoryBgColors ==
  << <<102, 204, 255>>, <<0, 153, 153>>, <<0, 0, 153>>, <<153, 153, 255>>,
     <<0, 204, 0>>, <<102, 255, 204>>, <<0, 153, 0>>, <<153, 0, 204>>,
     <<255, 0, 255>>, <<255, 0, 0>>, <<255, 153, 33>>, <<255, 255, 0>>,
     <<153, 102, 0>> >>

\* colour read from availableBgColors[0] when the palette is used up
UNDEFINED == <<>>

\* category.replace(/ /g, '_')
cleanCategory(category) ==
  [i \in DOMAIN category |-> IF category[i] = " " THEN "_" ELSE category[i]]

(***************************************************************************)
(* Bar: the fields the handlers read and write.  x, y are the translate of *)
(* barGEl, rectWidth is the 'width' attribute of bgRectEl (the bar's       *)
(* extent along the time axis).                                            *)
(***************************************************************************)
\* effectiveEndYr as set by Bar.update
effectiveEndYrOf(endYr) == IF endYr = NULL THEN curYr ELSE endYr

\* the Bar object as the constructor leaves it before it calls update
newBar(id, colIdx) ==
  [id |-> id, startYr |-> NULL, endYr |-> NULL, effectiveEndYr |-> NULL,
   category |-> <<>>, colIdx |-> colIdx, x |-> 0, y |-> 0, rectWidth |-> 0]

\* mutant: the column is recorded but the bar's element is not moved
moveToColKeepsTransform(bar, colIdx) == [bar EXCEPT !.colIdx = colIdx]

\* mutant: the vertical offset taken from the start year
moveToColMutant(bar, colIdx) ==
  [bar EXCEPT !.colIdx = colIdx,
              !.x = colIdx * colWidth,
              !.y = (indexYr - bar.startYr) * yrHeight]

moveToCol(bar, colIdx) ==
  [bar EXCEPT !.colIdx = colIdx,
              !.x = colIdx * colWidth,
              !.y = (indexYr - bar.effectiveEndYr) * yrHeight]

(***************************************************************************)
(* Image.assignCols                                                        *)
(***************************************************************************)
\* mutant: the operands swapped, so the bars are sorted ascending
compareBarsSwapped(a, b) ==
  LET endYrDiff == a.effectiveEndYr - b.effectiveEndYr
  IN IF endYrDiff = 0 THEN a.startYr - b.startYr ELSE endYrDiff

\* mutant: the comparator without the tie-break on startYr
compareBarsEndOnly(a, b) == b.effectiveEndYr - a.effectiveEndYr

\* the comparator handed to Array.prototype.sort
compareBars(a, b) ==
  LET endYrDiff == b.effectiveEndYr - a.effectiveEndYr
  IN IF endYrDiff = 0 THEN b.startYr - a.startYr ELSE endYrDiff

\* position at which a stable sort inserts bar into the sorted sequence s:
\* after every element that does not compare greater than it
\* mutant: an unstable sort, which puts a bar before the bars it ties with
RECURSIVE insertPosUnstable(_, _, _)
insertPosUnstable(s, bar, i) ==
  IF i > Len(s) THEN i
  ELSE IF compareBars(s[i], bar) >= 0 THEN i
  ELSE insertPosUnstable(s, bar, i + 1)

RECURSIVE insertPos(_, _, _)
insertPos(s, bar, i) ==
  IF i > Len(s) THEN i
  ELSE IF compareBars(s[i], bar) > 0 THEN i
  ELSE insertPos(s, bar, i + 1)

\* mutant: the bar is left where the push put it, at the end
insertBarAtEnd(s, bar) == Append(s, bar)

insertBar(s, bar) ==
  LET p == insertPos(s, bar, 1)
  IN SubSeq(s, 1, p - 1) \o <<bar>> \o SubSeq(s, p, Len(s))

\* Array.prototype.sort with compareBars (stable)
RECURSIVE sortBars(_)
sortBars(s) ==
  IF s = <<>> THEN <<>>
  ELSE insertBar(sortBars(SubSeq(s, 1, Len(s) - 1)), s[Len(s)])

\* mutant: a column counts as available when its occupant starts no later than
\* the bar ends
RECURSIVE findIndexInverted(_, _, _)
findIndexInverted(colsAvailYr, effectiveEndYr, i) ==
  IF i > Len(colsAvailYr) THEN 0
  ELSE IF colsAvailYr[i] <= effectiveEndYr THEN i
  ELSE findIndexInverted(colsAvailYr, effectiveEndYr, i + 1)

\* mutant: the last available column is taken instead of the first
RECURSIVE findIndexLast(_, _, _)
findIndexLast(colsAvailYr, effectiveEndYr, i) ==
  IF i > Len(colsAvailYr) THEN 0
  ELSE LET later == findIndexLast(colsAvailYr, effectiveEndYr, i + 1)
       IN IF later # 0 THEN later
          ELSE IF colsAvailYr[i] >= effectiveEndYr THEN i
          ELSE 0

\* mutant: a column is available only strictly before its occupant starts
RECURSIVE findIndexStrict(_, _, _)
findIndexStrict(colsAvailYr, effectiveEndYr, i) ==
  IF i > Len(colsAvailYr) THEN 0
  ELSE IF colsAvailYr[i] > effectiveEndYr THEN i
  ELSE findIndexStrict(colsAvailYr, effectiveEndYr, i + 1)

\* colsAvailYr.findIndex(availYr => availYr >= effectiveEndYr); 0 for -1,
\* otherwise the 1-based position
RECURSIVE findIndex(_, _, _)
findIndex(colsAvailYr, effectiveEndYr, i) ==
  IF i > Len(colsAvailYr) THEN 0
  ELSE IF colsAvailYr[i] >= effectiveEndYr THEN i
  ELSE findIndex(colsAvailYr, effectiveEndYr, i + 1)

\* mutant: a new column is numbered one past the count of the columns in use
RECURSIVE placeBarsSkipLane(_, _, _)
placeBarsSkipLane(sorted, i, acc) ==
  IF i > Len(sorted) THEN acc
  ELSE
    LET bar == sorted[i]
        firstAvailColIdx == findIndex(acc.colsAvailYr, bar.effectiveEndYr, 1)
    IN IF firstAvailColIdx = 0
       THEN placeBarsSkipLane(sorted, i + 1,
              [bars |-> Append(acc.bars, moveToCol(bar, Len(acc.colsAvailYr) + 1)),
               colsAvailYr |-> Append(acc.colsAvailYr, bar.startYr)])
       ELSE placeBarsSkipLane(sorted, i + 1,
              [bars |-> Append(acc.bars, moveToCol(bar, firstAvailColIdx - 1)),
               colsAvailYr |-> [acc.colsAvailYr EXCEPT ![firstAvailColIdx] = bar.startYr]])

\* the forEach of assignCols over bars[i..]: acc is the pair of the bars
\* placed so far and colsAvailYr
RECURSIVE placeBars(_, _, _)
placeBars(sorted, i, acc) ==
  IF i > Len(sorted) THEN acc
  ELSE
    LET bar == sorted[i]
        firstAvailColIdx == findIndex(acc.colsAvailYr, bar.effectiveEndYr, 1)
    IN IF firstAvailColIdx = 0
       THEN placeBars(sorted, i + 1,
              [bars |-> Append(acc.bars, moveToCol(bar, Len(acc.colsAvailYr))),
               colsAvailYr |-> Append(acc.colsAvailYr, bar.startYr)])
       ELSE placeBars(sorted, i + 1,
              [bars |-> Append(acc.bars, moveToCol(bar, firstAvailColIdx - 1)),
               colsAvailYr |-> [acc.colsAvailYr EXCEPT ![firstAvailColIdx] = bar.startYr]])

\* mutant: the image is only ever widened
updateSizeGrowOnly(img, width, height) ==
  [img EXCEPT !.outerWidth = Max(@, width), !.outerHeight = height,
              !.width = Max(@, width - 1), !.height = height - 1]

\* Image.updateSize(width, height)
updateSize(img, width, height) ==
  [img EXCEPT !.outerWidth = width, !.outerHeight = height,
              !.width = width - 1, !.height = height - 1]

assignCols(img) ==
  LET placed == placeBars(sortBars(img.bars), 1, [bars |-> <<>>, colsAvailYr |-> <<>>])
      packed == [img EXCEPT !.bars = placed.bars,
                            !.colsAvailYr = placed.colsAvailYr,
                            !.assignCalls = @ + 1]
  IN updateSize(packed, decadeWidth + colWidth * (Len(placed.colsAvailYr) + 1), img.height)

(***************************************************************************)
(* Image.checkCategories                                                   *)
(***************************************************************************)
\* the loop returns as soon as it meets the rect rule of this category
hasRule(rules, category) ==
  \E i \in DOMAIN rules : rules[i].selector = <<"rect", category>>

\* availableBgColors after the splice of every fill a rect rule holds
availableBgColors(rules) ==
  LET used == {rules[i].fill : i \in {j \in DOMAIN rules : rules[j].selector[1] = "rect"}}
  IN SelectSeq(categoryBgColors, LAMBDA c : c \notin used)

checkCategories(img, category) ==
  IF hasRule(img.categoryCss, category) THEN img
  ELSE
    LET avail == availableBgColors(img.categoryCss)
        nextBgColor == IF avail = <<>> THEN UNDEFINED ELSE avail[1]
        nextFgColor == IF nextBgColor # UNDEFINED /\ parseColor(nextBgColor).l2 < 2 * 128
                       THEN <<255, 255, 255>> ELSE <<0, 0, 0>>
    IN [img EXCEPT !.categoryCss =
          @ \o << [selector |-> <<"rect", category>>, fill |-> nextBgColor],
                  [selector |-> <<"text", category>>, fill |-> nextFgColor] >>]

(***************************************************************************)
(* Bar.update, the Bar constructor and Image.addBar                        *)
(***************************************************************************)
barIndex(img, id) == CHOOSE i \in DOMAIN img.bars : img.bars[i].id = id

hasBar(img, id) == \E i \in DOMAIN img.bars : img.bars[i].id = id

\* mutant: effectiveEndYr is resolved when the bar is built and kept afterwards
setBarFieldsStale(bar, startYr, endYr, category) ==
  LET eff == IF bar.effectiveEndYr = NULL THEN effectiveEndYrOf(endYr)
             ELSE bar.effectiveEndYr
  IN [bar EXCEPT !.startYr = startYr, !.endYr = endYr, !.category = category,
                 !.effectiveEndYr = eff,
                 !.x = bar.colIdx * colWidth,
                 !.y = (indexYr - eff) * yrHeight,
                 !.rectWidth = (eff - startYr) * yrHeight]

\* the assignments of Bar.update to the bar itself, before assignCols
setBarFields(bar, startYr, endYr, category) ==
  LET eff == effectiveEndYrOf(endYr)
  IN [bar EXCEPT !.startYr = startYr, !.endYr = endYr, !.category = category,
                 !.effectiveEndYr = eff,
                 !.x = bar.colIdx * colWidth,
                 !.y = (indexYr - eff) * yrHeight,
                 !.rectWidth = (eff - startYr) * yrHeight]

\* mutant: the reallocation runs a second time
updateTwice(img, id, startYr, endYr, category) ==
  LET i == barIndex(img, id)
      checked == checkCategories(img, cleanCategory(category))
      set == [checked EXCEPT !.bars[i] = setBarFields(@, startYr, endYr, category)]
  IN assignCols(assignCols(set))

update(img, id, startYr, endYr, category) ==
  LET i == barIndex(img, id)
      checked == checkCategories(img, cleanCategory(category))
      set == [checked EXCEPT !.bars[i] = setBarFields(@, startYr, endYr, category)]
  IN assignCols(set)

\* new Bar(image, id, name, startYr, endYr, category, 0): push, then update
addBar(img, id, startYr, endYr, category) ==
  update([img EXCEPT !.bars = Append(@, newBar(id, 0))], id, startYr, endYr, category)

(***************************************************************************)
(* Scroll offset and decade labels.                                        *)
(***************************************************************************)
\* parseInt of the text of the number v / OffsetScale: its integer part,
\* the fraction dropped (truncation towards zero)
parseInt(v) ==
  IF v >= 0 THEN v \div OffsetScale ELSE -((-v) \div OffsetScale)

\* Math.ceil(a / b) for b > 0
ceilDiv(a, b) == -((-a) \div b)

\* buildDecadeEl(decadeYr): the label of a decade and its vertical place
buildDecadeEl(decadeYr) ==
  LET decade == getDecadeForYr(decadeYr)
  IN [decadeYr |-> decadeYr, y |-> (curDecade - decade) * decadeHeight]

\* Image.addCenturyEl(centuryYr)
addCenturyEl(img, centuryYr) ==
  LET centuryDecade == getDecadeForYr(centuryYr)
      y == (curDecade - centuryDecade + 1) * decadeHeight
  IN [img EXCEPT !.centuries = Append(@, [y |-> y, width |-> img.width])]

\* the for loop of updateDecadeLabels from decade up to prevStartDecade - 1
RECURSIVE appendDecadeEls(_, _, _)
appendDecadeEls(img, decade, prevStartDecade) ==
  IF decade >= prevStartDecade THEN img
  ELSE
    LET labelled == [img EXCEPT !.decadeLabels = Append(@, buildDecadeEl(decade * 10))]
        marked == IF decade % 10 = 0 THEN addCenturyEl(labelled, decade * 10)
                  ELSE labelled
    IN appendDecadeEls(marked, decade + 1, prevStartDecade)

\* Image.updateDecadeLabels
updateDecadeLabels(img) ==
  LET visibleY == img.height - parseInt(img.offset)
      decadeCount == ceilDiv(visibleY, decadeHeight)
      endDecade == img.decadesEnd
      startDecade == endDecade - decadeCount + 1
      prevStartDecade == IF img.decadesStart = NULL THEN endDecade + 1
                         ELSE img.decadesStart
  IN appendDecadeEls(img, startDecade, prevStartDecade)

\* Image.setOffset(offset)
setOffset(img, offset) ==
  LET clamped == IF offset > 0 THEN 0 ELSE offset
  IN updateDecadeLabels([img EXCEPT !.offset = clamped])

\* Image.updateOffset(offsetDelta)
updateOffset(img, offsetDelta) ==
  setOffset(img, OffsetScale * parseInt(img.offset) + offsetDelta)

\* Image.addDecadeEls
addDecadeEls(img) ==
  LET cleared == [img EXCEPT !.decadeLabels = <<>>, !.decadesEnd = curDecade,
                             !.decadesStart = NULL, !.centuries = <<>>]
  IN updateDecadeLabels(setOffset(cleared, 0))

(***************************************************************************)
(* The state machine.                                                      *)
(***************************************************************************)
newImage(width, height) ==
  addDecadeEls(
    [bars |-> <<>>, outerWidth |-> width, outerHeight |-> height,
     width |-> width - 1, height |-> height - 1,
     categoryCss |-> <<>>, colsAvailYr |-> <<>>, assignCalls |-> 0,
     offset |-> NULL, decadeLabels |-> <<>>, decadesEnd |-> NULL,
     decadesStart |-> NULL, centuries |-> <<>>])

Init ==
  /\ curYr \in CurYrs
  /\ image = newImage(InitWidth, InitHeight)
  /\ lastOp = "new"

\* an operation that reallocates may run while the explored depth allows
CanAssign == InitHeight - image.outerHeight < MaxAssigns

\* every handler starts with the call counter of assignCols at zero
entered == [image EXCEPT !.assignCalls = 0]

\* ids are opaque and unique within a chart: the caller hands out the next one
AddBar(id, startYr, endYr, category) ==
  /\ CanAssign
  /\ id = Len(image.bars) + 1
  /\ image' = addBar(entered, id, startYr, endYr, category)
  /\ lastOp' = "addBar"
  /\ UNCHANGED curYr

Update(id, startYr, endYr, category) ==
  /\ CanAssign
  /\ hasBar(image, id)
  /\ image' = update(entered, id, startYr, endYr, category)
  /\ lastOp' = "update"
  /\ UNCHANGED curYr

AssignCols ==
  /\ CanAssign
  /\ image' = assignCols(entered)
  /\ lastOp' = "assignCols"
  /\ UNCHANGED curYr

\* a scroll may run while the labels in the DOM are few enough
CanScroll == Len(image.decadeLabels) < MaxLabels

SetOffset(offset) ==
  /\ CanScroll
  /\ image' = setOffset(entered, offset)
  /\ lastOp' = "setOffset"
  /\ UNCHANGED curYr

\* the onwheel handler of the svg element
UpdateOffset(offsetDelta) ==
  /\ CanScroll
  /\ image' = updateOffset(entered, offsetDelta)
  /\ lastOp' = "updateOffset"
  /\ UNCHANGED curYr

\* image.removeBar(id): Image defines no member that takes a bar out of
\* image.bars, so the call throws a TypeError before any state is touched
RemoveBar(id) ==
  /\ hasBar(image, id)
  /\ image' = image
  /\ lastOp' = "removeBar"
  /\ UNCHANGED curYr

Next ==
  \/ \E id \in Ids, startYr \in Years, endYr \in EndYrs, category \in Categories :
       AddBar(id, startYr, endYr, category)
  \/ \E id \in Ids, startYr \in Years, endYr \in EndYrs, category \in Categories :
       Update(id, startYr, endYr, category)
  \/ AssignCols

Spec == Init /\ [][Next]_vars

\* the calls whose interval is valid: startYr <= effectiveEndYr
validInterval(startYr, endYr) == startYr <= effectiveEndYrOf(endYr)

NextValid ==
  \/ \E id \in Ids, startYr \in Years, endYr \in EndYrs, category \in Categories :
       validInterval(startYr, endYr) /\ AddBar(id, startYr, endYr, category)
  \/ \E id \in Ids, startYr \in Years, endYr \in EndYrs, category \in Categories :
       validInterval(startYr, endYr) /\ Update(id, startYr, endYr, category)
  \/ AssignCols

SpecValid == Init /\ [][NextValid]_vars

NextRemove ==
  \/ \E id \in Ids, startYr \in Years, endYr \in EndYrs, category \in Categories :
       AddBar(id, startYr, endYr, category)
  \/ \E id \in Ids, startYr \in Years, endYr \in EndYrs, category \in Categories :
       Update(id, startYr, endYr, category)
  \/ AssignCols
  \/ \E id \in Ids : RemoveBar(id)

SpecRemove == Init /\ [][NextRemove]_vars

\* categories whose names differ only in a space against an underscore
CatInputs == {<<"a">>, <<"b">>, <<"a", " ", "b">>, <<"a", "_", "b">>}

\* the calls that vary the category of bars of one fixed interval
NextCat ==
  \/ \E id \in Ids, category \in CatInputs : AddBar(id, 1900, 1950, category)
  \/ \E id \in Ids, category \in CatInputs : Update(id, 1900, 1950, category)

SpecCat == Init /\ [][NextCat]_vars

\* the calls with years on both sides of the current year, so that open-ended
\* bars meet closed bars that end in the current year and bars that start
\* after it
OpenYears == {1950, 2024, 2030}

OpenEndYrs == {2024, NULL}

NextOpen ==
  \/ \E id \in Ids, startYr \in OpenYears, endYr \in OpenEndYrs, category \in Categories :
       AddBar(id, startYr, endYr, category)
  \/ \E id \in Ids, startYr \in OpenYears, endYr \in OpenEndYrs, category \in Categories :
       Update(id, startYr, endYr, category)
  \/ AssignCols

SpecOpen == Init /\ [][NextOpen]_vars

\* scrolling, with assignCols for the change of image.height it brings
NextScroll ==
  \/ \E offset \in Offsets : SetOffset(offset)
  \/ \E offsetDelta \in OffsetDeltas : UpdateOffset(offsetDelta)
  \/ AssignCols

SpecScroll == Init /\ [][NextScroll]_vars

(***************************************************************************)
(* Properties.                                                             *)
(***************************************************************************)
Bars == {image.bars[i] : i \in DOMAIN image.bars}

BarIdxs == DOMAIN image.bars

\* the lane count of the latest reallocation: the final length of colsAvailYr
LaneCount == Len(image.colsAvailYr)

\* two bars overlap over more than a point
Overlap(a, b) == ~(a.effectiveEndYr <= b.startYr \/ b.effectiveEndYr <= a.startYr)

AllValid == \A b \in Bars : b.startYr <= b.effectiveEndYr

Reallocated == lastOp \in {"addBar", "update", "assignCols"}

\* C1: under calls with valid intervals, any two bars that share a colIdx
\* satisfy: one's effectiveEndYr <= the other's startYr (they share at most a
\* boundary year); so bars that overlap over more than a point have
\* different colIdx.
C1_NoOverlapPerLane ==
  \A i, j \in BarIdxs :
    (i # j /\ image.bars[i].colIdx = image.bars[j].colIdx)
      => ~Overlap(image.bars[i], image.bars[j])

\* three bars, two of them packed into one lane around a shared boundary
\* year, the third overlapping both and in another lane
C1_Witness ==
  /\ Len(image.bars) = 3
  /\ \E i, j, k \in BarIdxs :
       /\ i # j
       /\ image.bars[i].colIdx = image.bars[j].colIdx
       /\ image.bars[i].effectiveEndYr = image.bars[j].startYr
       /\ image.bars[i].startYr < image.bars[i].effectiveEndYr
       /\ image.bars[j].startYr < image.bars[j].effectiveEndYr
       /\ Overlap(image.bars[k], image.bars[i])
       /\ Overlap(image.bars[k], image.bars[j])
       /\ image.bars[k].colIdx # image.bars[i].colIdx

\* the instants of the sweep: every year a bar starts or ends at
SweepYrs == {b.startYr : b \in Bars} \cup {b.effectiveEndYr : b \in Bars}

SetMax(S) == IF S = {} THEN 0 ELSE CHOOSE m \in S : \A n \in S : n <= m

\* the most bars that hold one and the same year, ends included
SweepMax ==
  SetMax({Cardinality({i \in BarIdxs :
                         image.bars[i].startYr <= y /\ y <= image.bars[i].effectiveEndYr})
            : y \in SweepYrs})

\* the most bars that cover one and the same span of time after a year y
SpanMax ==
  SetMax({Cardinality({i \in BarIdxs :
                         image.bars[i].startYr <= y /\ y < image.bars[i].effectiveEndYr})
            : y \in SweepYrs})

\* the size of the largest set of bars that overlap pairwise over more than a point
CliqueMax ==
  SetMax({Cardinality(S) : S \in {T \in SUBSET BarIdxs :
            \A i, j \in T : i # j => Overlap(image.bars[i], image.bars[j])}})

\* C2 as stated: the lane count equals the largest number of bars holding one
\* year, counted by a sweep over the years.
C2_Original == LaneCount = SweepMax

\* C2 amended: the lane count equals the largest number of bars that overlap
\* pairwise over more than a point; when no bar has zero duration that is the
\* largest number of bars covering one span of time (startYr <= y < effectiveEndYr).
C2_Minimality ==
  /\ LaneCount = CliqueMax
  /\ (\A b \in Bars : b.startYr < b.effectiveEndYr) => LaneCount = SpanMax

\* three bars, two of which meet in a boundary year, packed into two lanes
C2_Witness ==
  /\ Len(image.bars) = 3
  /\ LaneCount = 2
  /\ SweepMax = 3
  /\ \A b \in Bars : b.startYr < b.effectiveEndYr

\* C3: a call of assignCols on a chart whose bars did not change since the
\* last reallocation leaves every colIdx, the order of image.bars and the
\* lane count as they were.
C3_Idempotent ==
  [][(Reallocated /\ lastOp' = "assignCols")
       => /\ image'.bars = image.bars
          /\ Len(image'.colsAvailYr) = Len(image.colsAvailYr)
          /\ image'.outerWidth = image.outerWidth]_vars

\* assignCols has run on its own, after an update, over bars of which two
\* tie in both keys
C3_Witness ==
  /\ lastOp = "assignCols"
  /\ image.outerHeight <= InitHeight - 3
  /\ \E i, j \in BarIdxs :
       /\ i # j
       /\ image.bars[i].startYr = image.bars[j].startYr
       /\ image.bars[i].effectiveEndYr = image.bars[j].effectiveEndYr

\* the chart a caller gets by adding the bars of s to img one by one
RECURSIVE addAll(_, _)
addAll(img, s) ==
  IF s = <<>> THEN img
  ELSE addBar(addAll(img, SubSeq(s, 1, Len(s) - 1)),
              s[Len(s)].id, s[Len(s)].startYr, s[Len(s)].endYr, s[Len(s)].category)

\* the bars of the chart in the order of their ids
ById == [n \in 1..Len(image.bars) |-> image.bars[barIndex(image, n)]]

\* a second chart holding the same bars, built by adding them in id order
\* with their present years, without any update
Rebuilt == addAll(newImage(InitWidth, InitHeight), ById)

colIdxOf(img, id) == img.bars[barIndex(img, id)].colIdx

SameLanes == \A b \in Bars : colIdxOf(image, b.id) = colIdxOf(Rebuilt, b.id)

NoTiedBars ==
  \A i, j \in BarIdxs :
    i # j => \/ image.bars[i].startYr # image.bars[j].startYr
             \/ image.bars[i].effectiveEndYr # image.bars[j].effectiveEndYr

\* C4 as stated: two charts holding the same bars, reached by different call
\* sequences, give every bar id the same colIdx.
C4_Original == SameLanes

\* C4 amended: two charts holding the same bars, reached by different call
\* sequences, give every bar id the same colIdx provided no two bars have
\* both the same startYr and the same effectiveEndYr.
C4_FunctionOfIntervals == NoTiedBars => SameLanes

\* a chart of three bars without ties whose history (more calls, an update
\* that reordered the bars) differs from that of the rebuilt chart
C4_Witness ==
  /\ lastOp = "update"
  /\ Len(image.bars) = 3
  /\ NoTiedBars
  /\ image.outerHeight < Rebuilt.outerHeight
  /\ LaneCount = 2
  /\ \E i \in BarIdxs : image.bars[i].id # i

\* C5: every bar of image.bars satisfies startYr <= effectiveEndYr, because a
\* call with startYr > effectiveEndYr is rejected before assignCols runs.
C5_IntervalsValid == AllValid

\* C6: an addBar call and a Bar.update call each run assignCols exactly once,
\* and after the bar's fields are set: the bars are as the packing of their
\* present fields leaves them.
C6_ReallocateOnce ==
  lastOp \in {"addBar", "update"}
    => /\ image.assignCalls = 1
       /\ image.bars = assignCols(image).bars

\* both kinds of call have happened: an update on a chart of two bars
C6_Witness ==
  /\ lastOp = "update"
  /\ Len(image.bars) = 2
  /\ image.assignCalls = 1

\* C7: removing a bar takes it out of image.bars and reallocates once over
\* the remaining bars.
C7_RemoveTakesOut ==
  [][\A id \in Ids :
       RemoveBar(id) => (~hasBar(image', id) /\ image'.assignCalls = 1)]_vars

\* C8: effectiveEndYr equals endYr when endYr is given and curYr when it is null.
C8_EffectiveEndYr ==
  \A b \in Bars :
    b.effectiveEndYr = (IF b.endYr = NULL THEN curYr ELSE b.endYr)

\* after an update the chart holds an open bar and a closed one
C8_Witness ==
  /\ lastOp = "update"
  /\ \E b \in Bars : b.endYr = NULL /\ b.effectiveEndYr = curYr
  /\ \E b \in Bars : b.endYr # NULL /\ b.effectiveEndYr = b.endYr

\* C9: for every bar x = colIdx * colWidth, y = (indexYr - effectiveEndYr) *
\* yrHeight and length = (effectiveEndYr - startYr) * yrHeight; a bar
\* 1900-1950 in lane 2 with reference year 2030 has x = 60, length = 150,
\* y = 240.
C9_Coordinates ==
  /\ \A b \in Bars :
       /\ b.x = b.colIdx * colWidth
       /\ b.y = (indexYr - b.effectiveEndYr) * yrHeight
       /\ b.rectWidth = (b.effectiveEndYr - b.startYr) * yrHeight
  /\ \A b \in Bars :
       (b.startYr = 1900 /\ b.endYr = 1950 /\ b.colIdx = 2 /\ indexYr = 2030)
         => (b.x = 60 /\ b.rectWidth = 150 /\ b.y = 240)

\* the bar 1900-1950 sits in lane 2 and the reference year is 2030
C9_Witness ==
  /\ indexYr = 2030
  /\ \E b \in Bars : b.startYr = 1900 /\ b.endYr = 1950 /\ b.colIdx = 2

\* the lanes in use: the distinct colIdx values of the bars
LanesInUse == Cardinality({b.colIdx : b \in Bars})

\* C10: after every reallocation outerWidth = decadeWidth + colWidth *
\* (laneCount + 1) for the number of lanes just assigned.
C10_OuterWidth ==
  Reallocated => image.outerWidth = decadeWidth + colWidth * (LanesInUse + 1)

\* an update has left three bars in a single lane, fewer lanes than three
\* bars need when they overlap
C10_Witness ==
  /\ lastOp = "update"
  /\ Len(image.bars) = 3
  /\ LanesInUse = 1
  /\ image.outerWidth = decadeWidth + colWidth * 2

\* the comparator with the tie on effectiveEndYr broken the other way:
\* ascending startYr
compareBarsAscTies(a, b) ==
  LET endYrDiff == b.effectiveEndYr - a.effectiveEndYr
  IN IF endYrDiff = 0 THEN a.startYr - b.startYr ELSE endYrDiff

RECURSIVE insertPosAscTies(_, _, _)
insertPosAscTies(s, bar, i) ==
  IF i > Len(s) THEN i
  ELSE IF compareBarsAscTies(s[i], bar) > 0 THEN i
  ELSE insertPosAscTies(s, bar, i + 1)

RECURSIVE sortBarsAscTies(_)
sortBarsAscTies(s) ==
  IF s = <<>> THEN <<>>
  ELSE LET rest == sortBarsAscTies(SubSeq(s, 1, Len(s) - 1))
           p == insertPosAscTies(rest, s[Len(s)], 1)
       IN SubSeq(rest, 1, p - 1) \o <<s[Len(s)]>> \o SubSeq(rest, p, Len(rest))

\* the lane count of the same packing run over the bars sorted that way
LaneCountAscTies ==
  Len(placeBars(sortBarsAscTies(image.bars), 1,
                [bars |-> <<>>, colsAvailYr |-> <<>>]).colsAvailYr)

\* a zero-duration bar that ends in the year in which a different interval ends
ZeroDurationTie ==
  \E b, c \in Bars :
    /\ b.startYr = b.effectiveEndYr
    /\ c.effectiveEndYr = b.effectiveEndYr
    /\ c.startYr # b.startYr

\* C11 as stated: packing the same valid intervals with the ties on
\* effectiveEndYr broken by ascending startYr yields the same lane count.
C11_Original == LaneCountAscTies = LaneCount

\* C11 amended: the two tie-breaks yield the same lane count provided no
\* zero-duration interval ends in the year in which a different interval ends.
C11_TieBreakKeepsCount == ~ZeroDurationTie => LaneCountAscTies = LaneCount

\* three bars, two of them tied on effectiveEndYr with different startYr, so
\* that the two tie-breaks pack them in different orders
C11_Witness ==
  /\ Len(image.bars) = 3
  /\ ~ZeroDurationTie
  /\ sortBarsAscTies(image.bars) # image.bars
  /\ LaneCount = 2
  /\ LaneCountAscTies = 2

\* C12: after a reallocation every bar has a colIdx, and the colIdx values in
\* use are exactly 0 .. laneCount - 1: no bar without a lane, no lane skipped.
C12_LanesContiguous ==
  Reallocated => {b.colIdx : b \in Bars} = 0..(LaneCount - 1)

\* three bars packed into two lanes
C12_Witness ==
  /\ Len(image.bars) = 3
  /\ LaneCount = 2
  /\ {b.colIdx : b \in Bars} = {0, 1}

\* the fill of the rect rule a bar of this category is drawn with: the rule
\* of class category-<cleanCategory>
fillOf(category) ==
  LET rules == image.categoryCss
      i == CHOOSE j \in DOMAIN rules :
             rules[j].selector = <<"rect", cleanCategory(category)>>
  IN rules[i].fill

\* the categories the bars of the chart were given
CategoriesAdded == {b.category : b \in Bars}

\* C13: while at most 13 distinct categories have been added, no two
\* categories have the same fill colour.
C13_DistinctColours ==
  Cardinality(CategoriesAdded) <= Len(categoryBgColors)
    => \A c, d \in CategoriesAdded : c # d => fillOf(c) # fillOf(d)

\* C14: every addBar and Bar.update step leaves every bar of the chart with
\* the translate (colIdx * colWidth, (indexYr - effectiveEndYr) * yrHeight)
\* for the colIdx just assigned, indexYr being the reference year the chart
\* had before the step (curYr does not change).
C14_AllBarsPositioned ==
  [][lastOp' \in {"addBar", "update"}
       => /\ curYr' = curYr
          /\ \A i \in DOMAIN image'.bars :
               /\ image'.bars[i].x = image'.bars[i].colIdx * colWidth
               /\ image'.bars[i].y =
                    (indexYr - image'.bars[i].effectiveEndYr) * yrHeight]_vars

\* an update has left three bars in three lanes, each drawn in its own column
C14_Witness ==
  /\ lastOp = "update"
  /\ Len(image.bars) = 3
  /\ {b.x : b \in Bars} = {0, colWidth, 2 * colWidth}
  /\ \A b \in Bars : b.x = b.colIdx * colWidth

\* position in image.bars of the bar placed last in lane j before the bar at
\* position i was placed, 0 when lane j was still unopened (after assignCols
\* image.bars is in the order in which the bars were placed)
lastInLane(i, j) ==
  SetMax({0} \cup {p \in 1..(i - 1) : image.bars[p].colIdx = j})

\* number of lanes opened before the bar at position i was placed
lanesBefore(i) == Cardinality({image.bars[p].colIdx : p \in 1..(i - 1)})

\* lane j could take the bar at position i when that bar was placed
laneAvailable(i, j) ==
  /\ lastInLane(i, j) # 0
  /\ image.bars[lastInLane(i, j)].startYr >= image.bars[i].effectiveEndYr

\* C15: first-fit.  A bar sits in the lowest-index lane whose most recently
\* placed interval has startYr >= the bar's effectiveEndYr; it opens a new
\* lane, numbered with the count of lanes so far, only when no lane is
\* available; so every lane below the bar's own held, when the bar was
\* placed, a last occupant with startYr < the bar's effectiveEndYr.
C15_FirstFit ==
  Reallocated =>
    \A i \in BarIdxs :
      LET k == image.bars[i].colIdx
      IN /\ \A j \in 0..(k - 1) :
              /\ lastInLane(i, j) # 0
              /\ image.bars[lastInLane(i, j)].startYr < image.bars[i].effectiveEndYr
         /\ IF \E j \in 0..(lanesBefore(i) - 1) : laneAvailable(i, j)
            THEN laneAvailable(i, k)
            ELSE k = lanesBefore(i)

\* the third bar placed found lanes 0 and 1 both available and took lane 0
C15_Witness ==
  /\ Reallocated
  /\ Len(image.bars) = 3
  /\ laneAvailable(3, 0)
  /\ laneAvailable(3, 1)
  /\ image.bars[3].colIdx = 0

\* bars a and b are equal in both sort keys
fullyTied(a, b) ==
  a.effectiveEndYr = b.effectiveEndYr /\ a.startYr = b.startYr

\* bars is in descending effectiveEndYr order, ties in descending startYr
sortedBars(bars) ==
  \A i, j \in DOMAIN bars :
    i < j =>
      \/ bars[i].effectiveEndYr > bars[j].effectiveEndYr
      \/ /\ bars[i].effectiveEndYr = bars[j].effectiveEndYr
         /\ bars[i].startYr >= bars[j].startYr

\* C16: after every assignCols (the one addBar and Bar.update run included)
\* image.bars is sorted by descending effectiveEndYr, ties by descending
\* startYr, and two bars equal in both keys stand in the order they had in
\* image.bars before, a bar just pushed standing after the bars it ties with.
C16_SortedStable ==
  [][lastOp' \in {"addBar", "update", "assignCols"}
       => /\ sortedBars(image'.bars)
          /\ \A i, j \in DOMAIN image'.bars :
               (i < j /\ fullyTied(image'.bars[i], image'.bars[j])
                      /\ hasBar(image, image'.bars[j].id))
                 => /\ hasBar(image, image'.bars[i].id)
                    /\ barIndex(image, image'.bars[i].id)
                         < barIndex(image, image'.bars[j].id)]_vars

\* two fully tied bars stand against the order of their creation, next to a
\* bar that sorts before them
C16_Witness ==
  /\ Reallocated
  /\ Len(image.bars) = 3
  /\ ~fullyTied(image.bars[1], image.bars[2])
  /\ fullyTied(image.bars[2], image.bars[3])
  /\ image.bars[2].id > image.bars[3].id

\* the chart holds just a zero-duration bar z and one other bar b whose
\* occupancy ends at or before the instant of z
zeroDurationPair(z, b) ==
  /\ Len(image.bars) = 2
  /\ z.id # b.id
  /\ z.startYr = z.effectiveEndYr
  /\ b.effectiveEndYr <= z.startYr

\* C17: in a chart of exactly two bars, one of zero duration at year p and
\* one with effectiveEndYr <= p, both bars are in lane 0 and the lane count
\* is 1, whichever of the two was added first.
C17_ZeroDurationShares ==
  Reallocated =>
    \A z, b \in Bars :
      zeroDurationPair(z, b) => z.colIdx = 0 /\ b.colIdx = 0 /\ LaneCount = 1

\* the zero-duration bar was added first, and the other bar ends in its year
C17_Witness ==
  /\ lastOp = "addBar"
  /\ \E z, b \in Bars :
       /\ zeroDurationPair(z, b)
       /\ z.id = 1
       /\ b.startYr < b.effectiveEndYr
       /\ b.effectiveEndYr = z.startYr
       /\ LaneCount = 1

\* the same pair with the zero-duration bar added second
C17_WitnessSecond ==
  /\ lastOp = "addBar"
  /\ \E z, b \in Bars :
       /\ zeroDurationPair(z, b)
       /\ z.id = 2
       /\ b.startYr < b.effectiveEndYr
       /\ b.effectiveEndYr = z.startYr
       /\ LaneCount = 1

\* the orders in which the bars of the chart can be listed
barOrders ==
  {f \in [BarIdxs -> BarIdxs] : \A i, j \in BarIdxs : f[i] = f[j] => i = j}

\* the bars of the chart form a chain: listed in some order, each starts in
\* the year in which the one before it ends
isChain ==
  \E f \in barOrders :
    \A i \in BarIdxs :
      i < Len(image.bars) =>
        image.bars[f[i + 1]].startYr = image.bars[f[i]].effectiveEndYr

\* C18: when the bars of the chart form a chain, each starting exactly in the
\* year the previous one ends, every bar is in lane 0 and the lane count is
\* 1, in whatever order the bars were added.
C18_ChainOneLane ==
  (Reallocated /\ AllValid /\ Len(image.bars) >= 2 /\ isChain)
    => /\ \A b \in Bars : b.colIdx = 0
       /\ LaneCount = 1

\* the chain 1900-1920, 1920-1950, 1950-open added middle link first, then the
\* last link, then the first
C18_Witness ==
  /\ lastOp = "addBar"
  /\ Len(image.bars) = 3
  /\ isChain
  /\ ById[1].startYr = 1920 /\ ById[1].endYr = 1950
  /\ ById[2].startYr = 1950 /\ ById[2].endYr = NULL
  /\ ById[3].startYr = 1900 /\ ById[3].endYr = 1920
  /\ LaneCount = 1

\* the open-ended bars of the chart
OpenBars == {b \in Bars : b.endYr = NULL}

\* C19: of two open-ended bars, the one with the later startYr never has a
\* higher colIdx than the one with the earlier startYr.
C19_OpenLanePreference ==
  Reallocated =>
    \A a, b \in OpenBars : a.startYr > b.startYr => a.colIdx <= b.colIdx

\* two open-ended bars added earlier start first: the later start has taken
\* the lower lane, next to a closed bar that ends in the current year
C19_Witness ==
  /\ lastOp = "addBar"
  /\ Len(image.bars) = 3
  /\ \E a, b \in OpenBars :
       /\ a.id > b.id
       /\ a.startYr > b.startYr
       /\ a.colIdx < b.colIdx
  /\ \E c \in Bars : c.endYr = curYr

\* the decades that have a label element in the DOM
LabelledDecades ==
  {getDecadeForYr(image.decadeLabels[i].decadeYr) : i \in DOMAIN image.decadeLabels}

\* ceil((h - o) / decadeHeight) for h = image.height and the offset o
VisibleDecadeCount ==
  ceilDiv(OffsetScale * image.height - image.offset, OffsetScale * decadeHeight)

\* C20: after construction and after any setOffset or updateOffset, with
\* offset o <= 0 and chart height h, every decade from
\* curDecade - ceil((h - o) / decadeHeight) + 1 up to curDecade has at least
\* one label element.
C20_VisibleDecadesLabelled ==
  (lastOp \in {"new", "setOffset", "updateOffset"} /\ image.offset <= 0)
    => \A decade \in (curDecade - VisibleDecadeCount + 1)..curDecade :
         decade \in LabelledDecades

\* the same with the offset a whole number of pixels, as the wheel handler
\* delivers it: the labels reach as far as the claim asks
C20_WholePixelOffsets ==
  (lastOp \in {"new", "setOffset", "updateOffset"} /\ image.offset <= 0
     /\ image.offset % OffsetScale = 0)
    => \A decade \in (curDecade - VisibleDecadeCount + 1)..curDecade :
         decade \in LabelledDecades

====
